---- MODULE Spec2Model ----
(***************************************************************************)
(* postqe/readutils.py: readers and writers of the files used by postqe.   *)
(*                                                                         *)
(*   - the text dump of a dense field: create_header, write_charge,        *)
(*     read_postqe_output_file                                             *)
(*   - the HDF5 charge and wavefunction readers                            *)
(*   - the UPF pseudopotential reader                                      *)
(*                                                                         *)
(* Every operation is one action that runs the whole function on the       *)
(* input drawn by Init and leaves its outcome in ret: either a returned    *)
(* value or the exception that left the function.                          *)
(***************************************************************************)
EXTENDS Integers, Sequences, FiniteSets, TLC

VARIABLES
    arg,        \* the arguments the operations are called with
    file,       \* content of the text file at filename (NoFile: not there)
    op,         \* the operation that ran last ("none" before the first)
    ret,        \* its outcome: a returned value or a raised exception
    rho_temp,   \* the grid read_charge_file_hdf5 hands to ifftn (line 33)
    nopen       \* number of file handles opened and not closed

vars == <<arg, file, op, ret, rho_temp, nopen>>

(***************************************************************************)
(* Bounds of the model.                                                    *)
(***************************************************************************)
MaxNr1 == 5        \* 1st axis of a written field: 1..MaxNr1
MaxNr2 == 2        \* 2nd axis
MaxNr3 == 2        \* 3rd axis
MaxOpen == 2       \* handles a run may leave open before the model stops counting

(***************************************************************************)
(* Outcomes.                                                               *)
(***************************************************************************)
Returned(v) == [kind |-> "return", value |-> v]
Raised(e)   == [kind |-> "raise", exc |-> e]
NoRet       == [kind |-> "none"]
NoFile      == [exists |-> FALSE, text |-> <<>>]
TextFile(t) == [exists |-> TRUE, text |-> t]
NoGrid      == [set |-> FALSE]
Grid(g)     == [set |-> TRUE, shape |-> g.shape, v |-> g.v]

(***************************************************************************)
(* Real numbers.  A value is sign, significant decimal digits d1 d2 ...    *)
(* and exponent: (-1)^neg * d1.d2d3... * 10^exp.  A normal value has       *)
(* d1 # 0 and no trailing zero; zero is <<0>> with exponent 0.             *)
(***************************************************************************)
Zero == [neg |-> FALSE, digs |-> <<0>>, exp |-> 0]

MaxOf(S) == CHOOSE k \in S : \A j \in S : j <= k

\* d without its trailing zeros (its first digit is kept)
StripZeros(d) == SubSeq(d, 1, MaxOf({1} \cup {i \in 1..Len(d) : d[i] # 0}))

RECURSIVE IntDigits(_)
IntDigits(n) == IF n < 10 THEN <<n>> ELSE Append(IntDigits(n \div 10), n % 10)

\* the float with the value of the integer n
IntToValue(n) ==
    IF n = 0 THEN Zero
    ELSE LET a == IF n < 0 THEN -n ELSE n
             d == IntDigits(a)
         IN [neg |-> n < 0, digs |-> StripZeros(d), exp |-> Len(d) - 1]

AllZero(d) == \A i \in 1..Len(d) : d[i] = 0

\* d + 1 in the place k; carry when every digit up to k was 9
RECURSIVE IncrementAt(_, _)
IncrementAt(d, k) ==
    IF k = 0 THEN [digs |-> d, carry |-> TRUE]
    ELSE IF d[k] < 9 THEN [digs |-> [d EXCEPT ![k] = @ + 1], carry |-> FALSE]
    ELSE IncrementAt([d EXCEPT ![k] = 0], k - 1)

Increment(d) == IncrementAt(d, Len(d))

\* d rounded to n digits (to nearest, ties to even), zero padded
RoundDigits(d, n) ==
    IF Len(d) <= n
    THEN [digs |-> d \o [i \in 1..(n - Len(d)) |-> 0], carry |-> FALSE]
    ELSE LET head == SubSeq(d, 1, n)
             rest == SubSeq(d, n + 1, Len(d))
             up   == \/ rest[1] > 5
                     \/ /\ rest[1] = 5
                        /\ \/ ~AllZero(Tail(rest))
                           \/ head[n] % 2 = 1
         IN IF up THEN Increment(head) ELSE [digs |-> head, carry |-> FALSE]

\* "{:.<prec>E}".format(v): d.ddd...E+xx with prec digits after the point
FormatE(v, prec) ==
    LET r == RoundDigits(v.digs, prec + 1)
    IN IF r.carry
       THEN [t |-> "sci", neg |-> v.neg, exp |-> v.exp + 1,
             digs |-> <<1>> \o [i \in 1..prec |-> 0]]
       ELSE [t |-> "sci", neg |-> v.neg, exp |-> v.exp, digs |-> r.digs]

\* "{:8d}".format(n), as the token split() gives back
FormatD(n) == [t |-> "int", n |-> n]
Word(s)    == [t |-> "str", s |-> s]
Hash       == Word("#")
NL         == [t |-> "nl"]

\* float(token)
ParseFloat(tok) ==
    IF tok.t = "sci"
    THEN IF AllZero(tok.digs) THEN Returned(Zero)
         ELSE Returned([neg |-> tok.neg, digs |-> StripZeros(tok.digs), exp |-> tok.exp])
    ELSE IF tok.t = "int" THEN Returned(IntToValue(tok.n))
    ELSE Raised("ValueError")

\* int(token)
ParseInt(tok) == IF tok.t = "int" THEN Returned(tok.n) ELSE Raised("ValueError")

ValuePrecision == 9     \* "{:.9E}"
HeaderPrecision == 6    \* "{:8E}", "{:9E}": the default precision


(***************************************************************************)
(* Arrays.  An array is its shape and its cells, indexed from 0.           *)
(***************************************************************************)
Cells(shape) ==
    IF Len(shape) = 3
    THEN (0..(shape[1] - 1)) \X (0..(shape[2] - 1)) \X (0..(shape[3] - 1))
    ELSE (0..(shape[1] - 1)) \X (0..(shape[2] - 1))

NotANumber == [t |-> "strobj"]
IsNumber(v) == "digs" \in DOMAIN v

(***************************************************************************)
(* create_header: the text of the header, as the tokens of its lines.      *)
(***************************************************************************)
RECURSIVE SpeciesLines(_, _)
SpeciesLines(atomic_species, ityp) ==
    IF ityp > Len(atomic_species) THEN <<>>
    ELSE <<Hash, FormatD(ityp), Word(atomic_species[ityp].name), NL>>
         \o SpeciesLines(atomic_species, ityp + 1)

RECURSIVE PositionLines(_, _)
PositionLines(atomic_positions, ipos) ==
    IF ipos > Len(atomic_positions) THEN <<>>
    ELSE LET pos == atomic_positions[ipos]
         IN <<Hash, FormatD(ipos),
              FormatE(pos.coords[1], HeaderPrecision),
              FormatE(pos.coords[2], HeaderPrecision),
              FormatE(pos.coords[3], HeaderPrecision),
              Word(pos.name), NL>>
            \o PositionLines(atomic_positions, ipos + 1)

create_header(prefix, nr, nr_smooth, ibrav, celldms, nat, ntyp, atomic_species, atomic_positions) ==
    <<Hash>> \o prefix \o <<NL>>
    \o <<Hash, FormatD(nr[1]), FormatD(nr[2]), FormatD(nr[3]),
         FormatD(nr_smooth[1]), FormatD(nr_smooth[2]), FormatD(nr_smooth[3]),
         FormatD(nat), FormatD(ntyp), NL>>
    \o <<Hash, FormatD(ibrav)>>
    \o [i \in 1..6 |-> FormatE(celldms[i], HeaderPrecision)] \o <<NL>>
    \o <<Hash, Word("XXXX"), Word("XXXX"), Word("XXXX"), Word("XXXX"), NL>>
    \o SpeciesLines(atomic_species, 1)
    \o PositionLines(atomic_positions, 1)

(***************************************************************************)
(* write_charge.                                                           *)
(***************************************************************************)
LineLength == 5         \* count%5==0

\* the cells in the order of the loop nest: z outermost, x innermost
RECURSIVE LoopX(_, _, _, _)
LoopX(nr, z, y, x) ==
    IF x >= nr[1] THEN <<>> ELSE <<<<x, y, z>>>> \o LoopX(nr, z, y, x + 1)

RECURSIVE LoopY(_, _, _)
LoopY(nr, z, y) ==
    IF y >= nr[2] THEN <<>> ELSE LoopX(nr, z, y, 0) \o LoopY(nr, z, y + 1)

RECURSIVE LoopZ(_, _)
LoopZ(nr, z) ==
    IF z >= nr[3] THEN <<>> ELSE LoopY(nr, z, 0) \o LoopZ(nr, z + 1)

\* a loop nest with the 1st axis outermost
RECURSIVE LoopZin(_, _, _, _)
LoopZin(nr, x, y, z) ==
    IF z >= nr[3] THEN <<>> ELSE <<<<x, y, z>>>> \o LoopZin(nr, x, y, z + 1)

RECURSIVE LoopYmid(_, _, _)
LoopYmid(nr, x, y) ==
    IF y >= nr[2] THEN <<>> ELSE LoopZin(nr, x, y, 0) \o LoopYmid(nr, x, y + 1)

RECURSIVE LoopXout(_, _)
LoopXout(nr, x) ==
    IF x >= nr[1] THEN <<>> ELSE LoopYmid(nr, x, 0) \o LoopXout(nr, x + 1)

WriteOrder_FirstAxisSlowest(nr) == LoopXout(nr, 0)

\* lines 202-204
WriteOrder(nr) == LoopZ(nr, 0)

\* lines 205-208 for the cells order[k..]: out is the text written so far
RECURSIVE WriteCells(_, _, _, _, _)
WriteCells(charge, order, k, count, out) ==
    IF k > Len(order) THEN [content |-> out, exc |-> "", count |-> count]
    ELSE LET v == charge.v[order[k]]
         IN IF ~IsNumber(v)
            THEN [content |-> out, exc |-> "ValueError", count |-> count]
            ELSE LET o1 == Append(out, FormatE(v, ValuePrecision))
                     o2 == IF (count + 1) % LineLength = 0 THEN Append(o1, NL) ELSE o1
                 IN WriteCells(charge, order, k + 1, count + 1, o2)

\* the body of write_charge between open and close: the text of the file
\* and the exception that ended it, if any
WriteCharge(charge, header) ==
    IF Len(charge.shape) < 3
    THEN [content |-> header, exc |-> "IndexError", count |-> 0]
    ELSE WriteCells(charge, WriteOrder(charge.shape), 1, 0, header)

(***************************************************************************)
(* read_postqe_output_file.                                                *)
(***************************************************************************)
\* the lines of a text, each as line.split() gives it
RECURSIVE SplitLines(_, _, _)
SplitLines(content, i, cur) ==
    IF i > Len(content)
    THEN IF cur = <<>> THEN <<>> ELSE <<cur>>
    ELSE IF content[i] = NL
         THEN <<cur>> \o SplitLines(content, i + 1, <<>>)
         ELSE SplitLines(content, i + 1, Append(cur, content[i]))

Lines(content) == SplitLines(content, 1, <<>>)

\* lines 262-264: nr[0..2] = int(linesplit[1..3])
RECURSIVE ReadNr(_, _, _)
ReadNr(linesplit, j, nr) ==
    IF j > 3 THEN Returned(nr)
    ELSE IF Len(linesplit) < j + 1 THEN Raised("IndexError")
    ELSE LET n == ParseInt(linesplit[j + 1])
         IN IF n.kind = "raise" THEN n
            ELSE ReadNr(linesplit, j + 1, [nr EXCEPT ![j] = n.value])

\* lines 266-267
RECURSIVE ReadTokens(_, _, _)
ReadTokens(linesplit, j, temp) ==
    IF j > Len(linesplit) THEN Returned(temp)
    ELSE LET f == ParseFloat(linesplit[j])
         IN IF f.kind = "raise" THEN f
            ELSE ReadTokens(linesplit, j + 1, Append(temp, f.value))

GridLine == 1           \* count==1

\* lines 259-268 for the lines[count+1..]
RECURSIVE ReadLines(_, _, _, _)
ReadLines(lines, count, nr, temp) ==
    IF count >= Len(lines) THEN Returned([nr |-> nr, tempcharge |-> temp])
    ELSE LET linesplit == lines[count + 1]
             n == IF count = GridLine THEN ReadNr(linesplit, 1, nr) ELSE Returned(nr)
         IN IF n.kind = "raise" THEN n
            ELSE IF Len(linesplit) = 0 THEN Raised("IndexError")
            ELSE IF linesplit[1] # Hash
                 THEN LET t == ReadTokens(linesplit, 1, temp)
                      IN IF t.kind = "raise" THEN t
                         ELSE ReadLines(lines, count + 1, n.value, t.value)
                 ELSE ReadLines(lines, count + 1, n.value, temp)

ReadOrder_FirstAxisSlowest(nr) == LoopXout(nr, 0)

\* lines 273-275
ReadOrder(nr) == LoopZ(nr, 0)

\* lines 270-279
Refold(nr, tempcharge) ==
    IF \E i \in 1..3 : nr[i] < 0 THEN Raised("ValueError")
    ELSE LET order == ReadOrder(nr)
         IN IF Len(order) > Len(tempcharge) THEN Raised("IndexError")
            ELSE Returned([shape |-> nr,
                           v |-> [c \in Cells(nr) |->
                                    tempcharge[CHOOSE k \in 1..Len(order) : order[k] = c]]])

\* the whole of read_postqe_output_file on the text of an existing file
ReadPostqe(content) ==
    LET r == ReadLines(Lines(content), 0, <<0, 0, 0>>, <<>>)
    IN IF r.kind = "raise" THEN r ELSE Refold(r.value.nr, r.value.tempcharge)


(***************************************************************************)
(* The operations on the text file.                                        *)
(***************************************************************************)
\* write_charge(filename, charge, header): fout is opened at line 195 and
\* closed at line 210, which an exception raised in between never reaches
write_charge ==
    /\ "charge" \in DOMAIN arg
    /\ LET w == WriteCharge(arg.charge, arg.header)
           closed == IF w.exc = "" THEN 1 ELSE 0
       IN /\ nopen + 1 - closed <= MaxOpen
          /\ file' = TextFile(w.content)
          /\ ret' = IF w.exc = "" THEN Returned(<<>>) ELSE Raised(w.exc)
          /\ nopen' = nopen + 1 - closed
    /\ op' = "write_charge"
    /\ UNCHANGED <<arg, rho_temp>>

\* read_postqe_output_file(filename): the with statement of line 258 closes
\* the file however the block is left
read_postqe_output_file ==
    /\ "charge" \in DOMAIN arg
    /\ IF ~file.exists
       THEN ret' = Raised("IOError") /\ nopen' = nopen
       ELSE ret' = ReadPostqe(file.text) /\ nopen' = nopen + 1 - 1
    /\ op' = "read_postqe_output_file"
    /\ UNCHANGED <<arg, file, rho_temp>>

(***************************************************************************)
(* Inputs of the text file operations.                                     *)
(***************************************************************************)
V(neg, digs, exp) == [neg |-> neg, digs |-> digs, exp |-> exp]

\* values with more digits than the format keeps, with a carry into the
\* exponent, negative, zero, and short ones
Samples ==
    << V(FALSE, <<1, 2, 3, 4, 5, 6, 7, 8, 9, 0, 1>>, 0),
       V(TRUE,  <<9, 9, 9, 9, 9, 9, 9, 9, 9, 9, 6>>, -3),
       V(FALSE, <<2, 5>>, 0),
       Zero,
       V(TRUE,  <<1>>, 2),
       V(FALSE, <<1, 2, 3, 4, 5, 6, 7, 8, 9, 0, 5, 5>>, 5) >>

Patterns == {"coord", "mix", "obj"}

CellValue(shape, pat, c) ==
    LET z == IF Len(shape) = 3 THEN c[3] ELSE 0
        last == \A i \in 1..Len(shape) : c[i] = shape[i] - 1
    IN IF pat = "mix" THEN Samples[((c[1] + 2 * c[2] + 3 * z) % Len(Samples)) + 1]
       ELSE IF pat = "obj" /\ last THEN NotANumber
       ELSE IntToValue(100 * c[1] + 10 * c[2] + z + 1)

Field(shape, pat) ==
    [shape |-> shape, v |-> [c \in Cells(shape) |-> CellValue(shape, pat, c)]]

Shapes == ((1..MaxNr1) \X (1..MaxNr2) \X (1..MaxNr3)) \cup {<<MaxNr1, MaxNr2>>}

SysBare ==
    [prefix |-> <<>>, ibrav |-> 1,
     celldms |-> <<V(FALSE, <<1>>, 1), Zero, Zero, Zero, Zero, Zero>>,
     species |-> <<>>, positions |-> <<>>]

SysSi ==
    [prefix |-> <<Word("Si")>>, ibrav |-> 2,
     celldms |-> <<V(FALSE, <<1, 0, 2>>, 1), Zero, Zero, Zero, Zero, Zero>>,
     species |-> <<[name |-> "Si"]>>,
     positions |-> <<[name |-> "Si", coords |-> <<Zero, Zero, Zero>>],
                     [name |-> "Si", coords |-> <<V(FALSE, <<2, 5>>, -1),
                                                   V(FALSE, <<2, 5>>, -1),
                                                   V(FALSE, <<2, 5>>, -1)>>]>>]

Systems == {SysBare, SysSi}

\* the header the caller builds for a system and a grid
HeaderOf(sys, nr) ==
    create_header(sys.prefix, nr, nr, sys.ibrav, sys.celldms,
                  Len(sys.positions), Len(sys.species), sys.species, sys.positions)

Nr3(shape) == IF Len(shape) = 3 THEN shape ELSE Append(shape, 1)

\* headers a caller may pass: of the field's own grid, of a larger and of a
\* smaller grid, no header at all, and text that is no header
Headers(shape) ==
    {HeaderOf(sys, Nr3(shape)) : sys \in Systems}
    \cup {HeaderOf(SysSi, [Nr3(shape) EXCEPT ![1] = @ + 1]),
          HeaderOf(SysSi, <<1, 1, 1>>),
          <<>>,
          <<Hash, Word("Si"), NL, Hash, Word("bulk"), NL>>}

CodecInputs ==
    UNION {{[charge |-> Field(sh, p), header |-> h] : p \in Patterns, h \in Headers(sh)} :
             sh \in Shapes}

InitCodec ==
    /\ arg \in CodecInputs
    /\ file = NoFile
    /\ op = "none"
    /\ ret = NoRet
    /\ rho_temp = NoGrid
    /\ nopen = 0

NextCodec == write_charge \/ read_postqe_output_file

SpecCodec == InitCodec /\ [][NextCodec]_vars


(***************************************************************************)
(* Properties of the text file operations.                                 *)
(***************************************************************************)
NCells(shape) == shape[1] * shape[2] * shape[3]
IsData(piece) == piece # NL

\* the value tokens of a text that starts with a header of hlen pieces
DataTokens(text, hlen) == SelectSeq(SubSeq(text, hlen + 1, Len(text)), IsData)

\* a real-valued field with three axes, and a header of its own grid
RealField(charge) ==
    /\ Len(charge.shape) = 3
    /\ \A c \in Cells(charge.shape) : IsNumber(charge.v[c])

OwnHeader(a) == \E sys \in Systems : a.header = HeaderOf(sys, a.charge.shape)

\* r is w as far as the 9-digit format can tell, and is w itself when w has
\* no more digits than the format keeps
SameUpToFormat(r, w) ==
    /\ FormatE(r, ValuePrecision) = FormatE(w, ValuePrecision)
    /\ Len(w.digs) <= ValuePrecision + 1 => r = w

ReadBack ==
    /\ op = "read_postqe_output_file"
    /\ file.exists
    /\ RealField(arg.charge)
    /\ OwnHeader(arg)

\* C1: reading back a real field written under a header of its own grid
\* returns an array of the same shape whose value at every (x,y,z) is the
\* written value, up to the 9-digit format.
C1_RoundTrip ==
    ReadBack =>
        /\ ret.kind = "return"
        /\ ret.value.shape = arg.charge.shape
        /\ \A c \in Cells(arg.charge.shape) :
              SameUpToFormat(ret.value.v[c], arg.charge.v[c])

\* a 2x2x2 field holding values that the format rounds was read back
C1_Witness ==
    /\ ReadBack
    /\ arg.charge.shape = <<2, 2, 2>>
    /\ arg.charge.v[<<0, 0, 0>>] = Samples[1]
    /\ ret.kind = "return"
    /\ ret.value.v[<<0, 0, 0>>] # arg.charge.v[<<0, 0, 0>>]

Wrote ==
    /\ op = "write_charge"
    /\ ret.kind = "return"

\* C2: the n-th value written (from 0) is charge[x,y,z] with
\* n = x + nr1*(y + nr2*z), and there are exactly nr1*nr2*nr3 values: the
\* 1st axis runs fastest and every cell is written once.
C2_WriteOrder ==
    Wrote =>
        LET nr == arg.charge.shape
            toks == DataTokens(file.text, Len(arg.header))
        IN /\ Len(toks) = NCells(nr)
           /\ \A c \in Cells(nr) :
                 toks[c[1] + nr[1] * (c[2] + nr[2] * c[3]) + 1]
                    = FormatE(arg.charge.v[c], ValuePrecision)

\* a field with more than one cell along every axis and a different value
\* in every cell was written
C2_Witness ==
    /\ Wrote
    /\ \A i \in 1..3 : arg.charge.shape[i] >= 2
    /\ \A c, d \in Cells(arg.charge.shape) :
          c # d => arg.charge.v[c] # arg.charge.v[d]

\* C3: every line of values holds 5 of them, but for the last, which may
\* hold fewer, and every line, the last one too, ends with a line break.
C3_EveryGroupEndsWithLineBreak ==
    Wrote =>
        LET text == SubSeq(file.text, Len(arg.header) + 1, Len(file.text))
            lines == Lines(text)
        IN /\ \A i \in 1..Len(lines) :
                 /\ Len(lines[i]) <= LineLength
                 /\ i < Len(lines) => Len(lines[i]) = LineLength
           /\ text # <<>> => text[Len(text)] = NL

\* the second line of the text is a header line with three grid dimensions
HeaderPresent(text) ==
    LET lines == Lines(text)
    IN /\ Len(lines) >= 2
       /\ Len(lines[1]) >= 1 /\ lines[1][1] = Hash
       /\ Len(lines[2]) >= 4 /\ lines[2][1] = Hash
       /\ \A j \in 2..4 : lines[2][j].t = "int" /\ lines[2][j].n > 0

RECURSIVE CountData(_, _)
CountData(lines, i) ==
    IF i > Len(lines) THEN 0
    ELSE (IF Len(lines[i]) > 0 /\ lines[i][1] = Hash THEN 0 ELSE Len(lines[i]))
         + CountData(lines, i + 1)

BadTextFile(text) ==
    \/ ~HeaderPresent(text)
    \/ LET l == Lines(text)[2]
       IN CountData(Lines(text), 1) # l[2].n * l[3].n * l[4].n

\* C4: reading a text without a well-formed header, or with a number of
\* values other than nr1*nr2*nr3, fails with FormatError.
C4_BadFileFormatError ==
    (op = "read_postqe_output_file" /\ file.exists /\ BadTextFile(file.text))
        => ret = Raised("FormatError")


(***************************************************************************)
(* read_charge_file_hdf5.                                                  *)
(*                                                                         *)
(* An HDF5 file is its attributes, its datasets and its groups.  Complex   *)
(* numbers are pairs <<re, im>> of integers.  The inverse transform is     *)
(* computed exactly on grids whose axes have length 1, 2 or 4, where the   *)
(* roots of unity are 1, i, -1, -i.                                        *)
(***************************************************************************)
MaxNgm == 2        \* Miller indices in a charge file: 0..MaxNgm
MaxKpt == 2        \* KPOINT groups in a wavefunction file: 0..MaxKpt

Zeros(shape) == [shape |-> shape, v |-> [c \in Cells(shape) |-> <<0, 0>>]]

\* line 27: np.array(h5f[name]).reshape([ngm_g,2])
Reshape(h5, name) ==
    IF name \notin DOMAIN h5.ds THEN Raised("KeyError")
    ELSE IF "ngm_g" \notin DOMAIN h5.attrs THEN Raised("TypeError")
    ELSE IF Len(h5.ds[name]) # 2 * h5.attrs.ngm_g THEN Raised("ValueError")
    ELSE Returned([k \in 1..h5.attrs.ngm_g |-> <<h5.ds[name][2 * k - 1], h5.ds[name][2 * k]>>])

\* line 28: x.dot((1e0,1.j))
ToComplex(aux) == [k \in 1..Len(aux) |-> <<aux[k][1], aux[k][2]>>]

\* zip(a, b) stops at the shorter of the two
Min(a, b) == IF a < b THEN a ELSE b
Zip(a, b) == [k \in 1..Min(Len(a), Len(b)) |-> <<a[k], b[k]>>]

\* numpy indexing of an axis of length n: -n..-1 count from the end
AxisIndex(i, n) ==
    IF 0 <= i /\ i < n THEN i ELSE IF -n <= i /\ i < 0 THEN i + n ELSE -1

CAdd(a, b) == <<a[1] + b[1], a[2] + b[2]>>

RECURSIVE Scatter_Accumulate(_, _, _)
Scatter_Accumulate(grid, pairs, k) ==
    IF k > Len(pairs) THEN Returned(grid)
    ELSE LET idx == pairs[k][1]
             c == <<AxisIndex(idx[1], grid.shape[1]),
                    AxisIndex(idx[2], grid.shape[2]),
                    AxisIndex(idx[3], grid.shape[3])>>
         IN IF \E a \in 1..3 : c[a] < 0 THEN Raised("IndexError")
            ELSE Scatter_Accumulate(
                     [grid EXCEPT !.v[c] = CAdd(@, pairs[k][2])], pairs, k + 1)

\* lines 30-32: rho_temp[i,j,k] = rho for the pairs k, k+1, ...
RECURSIVE Scatter(_, _, _)
Scatter(grid, pairs, k) ==
    IF k > Len(pairs) THEN Returned(grid)
    ELSE LET idx == pairs[k][1]
             c == <<AxisIndex(idx[1], grid.shape[1]),
                    AxisIndex(idx[2], grid.shape[2]),
                    AxisIndex(idx[3], grid.shape[3])>>
         IN IF \E a \in 1..3 : c[a] < 0 THEN Raised("IndexError")
            ELSE Scatter([grid EXCEPT !.v[c] = pairs[k][2]], pairs, k + 1)

\* z * i^m
TimesIPower(z, m) ==
    IF m % 4 = 0 THEN z
    ELSE IF m % 4 = 1 THEN <<-z[2], z[1]>>
    ELSE IF m % 4 = 2 THEN <<-z[1], -z[2]>>
    ELSE <<z[2], -z[1]>>

\* exp(2 pi i k.x / n) as a power of i
Phase(shape, k, x) ==
    (4 \div shape[1]) * k[1] * x[1] + (4 \div shape[2]) * k[2] * x[2]
    + (4 \div shape[3]) * k[3] * x[3]

RECURSIVE FourierSum(_, _, _, _)
FourierSum(grid, cells, n, x) ==
    IF n > Len(cells) THEN <<0, 0>>
    ELSE CAdd(TimesIPower(grid.v[cells[n]], Phase(grid.shape, cells[n], x)),
              FourierSum(grid, cells, n + 1, x))

\* line 33: np.fft.ifftn(rho_temp) * nr1 * nr2 * nr3
IfftnScaled(grid) ==
    [shape |-> grid.shape,
     v |-> [x \in Cells(grid.shape) |-> FourierSum(grid, LoopZ(grid.shape, 0), 1, x)]]

\* .real
RealPart(grid) == [shape |-> grid.shape, v |-> [c \in Cells(grid.shape) |-> grid.v[c][1]]]

\* lines 27-32 for the dataset name: the grid handed to ifftn
Decode(h5, name, nr) ==
    LET aux == Reshape(h5, name)
    IN IF aux.kind = "raise" THEN aux
       ELSE IF "MillerIndices" \notin DOMAIN h5.ds THEN Raised("KeyError")
       ELSE Scatter(Zeros(nr), Zip(h5.ds.MillerIndices, ToComplex(aux.value)), 1)

ZerosDiff_Typo(nr1, nr2, nr3) == Zeros(<<nr1, nr2, nr2>>)

\* line 45
ZerosDiff(nr1, nr2, nr3) == Zeros(<<nr1, nr2, nr3>>)

\* lines 36-45: whatever is raised in the try block is swallowed
ReadDiff(h5, nr) ==
    LET g == Decode(h5, "rhodiff_g", nr)
    IN IF g.kind = "raise" THEN ZerosDiff(nr[1], nr[2], nr[3]) ELSE IfftnScaled(g.value)

\* lines 23-47: the grid of line 33 and the outcome
ReadCharge(h5, nr) ==
    LET g == Decode(h5, "rhotot_g", nr)
    IN IF g.kind = "raise" THEN [rho_temp |-> NoGrid, ret |-> g]
       ELSE [rho_temp |-> Grid(g.value),
             ret |-> Returned([tot |-> RealPart(IfftnScaled(g.value)),
                               diff |-> RealPart(ReadDiff(h5, nr))])]

\* read_charge_file_hdf5(filename, nr): the with statement of line 24
\* closes the file however the block is left
read_charge_file_hdf5 ==
    /\ "h5" \in DOMAIN arg
    /\ LET r == ReadCharge(arg.h5, arg.nr)
       IN /\ rho_temp' = r.rho_temp
          /\ ret' = r.ret
    /\ nopen' = nopen + 1 - 1
    /\ op' = "read_charge_file_hdf5"
    /\ UNCHANGED <<arg, file>>

(***************************************************************************)
(* read_wavefunction_file_hdf5.                                            *)
(***************************************************************************)
attrs_to_read ==
    <<"gamma_only", "igwx", "ik", "ispin", "ngw", "nk", "nbnd", "nspin", "scale_factor">>

\* lines 67-71 for one k-point group
ReadKpoint(group) ==
    IF "nbnd" \notin DOMAIN group.attrs THEN Raised("TypeError")
    ELSE IF group.attrs.nbnd > Len(group.bands) THEN Raised("KeyError")
    ELSE Returned([attrs |-> [i \in 1..Len(attrs_to_read) |->
                                 IF attrs_to_read[i] \in DOMAIN group.attrs
                                 THEN <<group.attrs[attrs_to_read[i]]>> ELSE <<>>],
                   bands |-> SubSeq(group.bands, 1, group.attrs.nbnd)])

\* lines 62-73
RECURSIVE ReadKpoints(_, _, _, _)
ReadKpoints(h5, i, nkpoints, wavefunctions) ==
    IF i >= nkpoints THEN Returned(wavefunctions)
    ELSE IF i + 1 > Len(h5.groups) THEN Raised("KeyError")
    ELSE LET temp == ReadKpoint(h5.groups[i + 1])
         IN IF temp.kind = "raise" THEN temp
            ELSE ReadKpoints(h5, i + 1, nkpoints, Append(wavefunctions, temp.value))

\* lines 57-75
ReadWavefunction(h5) ==
    IF Len(h5.groups) < 1 THEN Raised("KeyError")
    ELSE ReadKpoints(h5, 0, Cardinality(DOMAIN h5.groups[1].attrs), <<>>)

\* read_wavefunction_file_hdf5(filename): f is opened at line 56 and never
\* closed
read_wavefunction_file_hdf5 ==
    /\ "h5" \in DOMAIN arg
    /\ nopen + 1 <= MaxOpen
    /\ ret' = ReadWavefunction(arg.h5)
    /\ nopen' = nopen + 1
    /\ op' = "read_wavefunction_file_hdf5"
    /\ UNCHANGED <<arg, file, rho_temp>>


(***************************************************************************)
(* Inputs of the HDF5 readers.                                             *)
(***************************************************************************)
\* grids on which the transform is exact
HGrids == {<<1, 1, 1>>, <<2, 1, 1>>, <<2, 2, 2>>, <<4, 2, 1>>, <<1, 2, 4>>}

\* Miller indices: inside the grid, counted from the end, and outside
IndexPool(nr) ==
    {<<0, 0, 0>>, <<nr[1] - 1, nr[2] - 1, nr[3] - 1>>, <<0, nr[2] - 1, 0>>,
     <<-1, 0, 0>>, <<nr[1], 0, 0>>}

MillerLists(nr) == UNION {[1..n -> IndexPool(nr)] : n \in 0..MaxNgm}

\* flat real pairs, every number different from the others and from 0
TotData(n)  == [i \in 1..n |-> 3 * i - 7]
DiffData(n) == [i \in 1..n |-> 10 + i]

Variants ==
    {"full", "nodiff", "baddiff", "longer", "noattr", "notot", "nomiller", "badtot"}

ChargeFile(miller, variant) ==
    LET n == Len(miller)
        ngm == IF variant = "longer" THEN n + 1 ELSE n
        tot == TotData(IF variant = "badtot" THEN 2 * ngm + 1 ELSE 2 * ngm)
        dif == DiffData(IF variant = "baddiff" THEN 2 * ngm + 1 ELSE 2 * ngm)
    IN [groups |-> <<>>,
        attrs |-> IF variant = "noattr" THEN <<>> ELSE [ngm_g |-> ngm],
        ds |-> IF variant = "notot"
                 THEN [MillerIndices |-> miller, rhodiff_g |-> dif]
               ELSE IF variant = "nomiller"
                 THEN [rhotot_g |-> tot, rhodiff_g |-> dif]
               ELSE IF variant \in {"nodiff", "longer"}
                 THEN [MillerIndices |-> miller, rhotot_g |-> tot]
               ELSE [MillerIndices |-> miller, rhotot_g |-> tot, rhodiff_g |-> dif]]

KpointAttrs ==
    {<<>>, [nbnd |-> 0], [nbnd |-> 1], [nbnd |-> 1, ik |-> 1],
     [gamma_only |-> 0, igwx |-> 1, ik |-> 1, ispin |-> 1, ngw |-> 1, nk |-> 1,
      nbnd |-> 1, nspin |-> 1, scale_factor |-> 1]}

WavefunctionFile(g, attrs, nb) ==
    [groups |-> [i \in 1..g |-> [attrs |-> attrs, bands |-> [j \in 1..nb |-> <<i, j>>]]],
     attrs |-> <<>>,
     ds |-> <<>>]

Hdf5Inputs ==
    UNION {{[h5 |-> ChargeFile(m, v), nr |-> nr] : m \in MillerLists(nr), v \in Variants} :
             nr \in HGrids}
    \cup {[h5 |-> WavefunctionFile(g, a, nb), nr |-> <<1, 1, 1>>] :
            g \in 0..MaxKpt, a \in KpointAttrs, nb \in 0..1}

InitHdf5 ==
    /\ arg \in Hdf5Inputs
    /\ file = NoFile
    /\ op = "none"
    /\ ret = NoRet
    /\ rho_temp = NoGrid
    /\ nopen = 0

NextHdf5 == read_charge_file_hdf5 \/ read_wavefunction_file_hdf5

SpecHdf5 == InitHdf5 /\ [][NextHdf5]_vars


(***************************************************************************)
(* Properties of read_charge_file_hdf5.                                    *)
(***************************************************************************)
ReadChargeDone == op = "read_charge_file_hdf5"

\* the file has the attribute and the datasets of the total charge, of
\* matching sizes
HasTotal(h5) ==
    /\ "ngm_g" \in DOMAIN h5.attrs
    /\ "rhotot_g" \in DOMAIN h5.ds
    /\ "MillerIndices" \in DOMAIN h5.ds
    /\ Len(h5.ds.rhotot_g) = 2 * h5.attrs.ngm_g

\* the (index, coefficient) pairs of the total charge: the k-th index with
\* the k-th coefficient
NPairs(h5) == Min(Len(h5.ds.MillerIndices), h5.attrs.ngm_g)
PairIndex(h5, k) == h5.ds.MillerIndices[k]
PairCoef(h5, k) == <<h5.ds.rhotot_g[2 * k - 1], h5.ds.rhotot_g[2 * k]>>

InsideGrid(idx, nr) == \A a \in 1..3 : 0 <= idx[a] /\ idx[a] < nr[a]
Indexable(idx, nr)  == \A a \in 1..3 : -nr[a] <= idx[a] /\ idx[a] < nr[a]

ScatterCase ==
    /\ ReadChargeDone
    /\ HasTotal(arg.h5)
    /\ \A k \in 1..NPairs(arg.h5) : InsideGrid(PairIndex(arg.h5, k), arg.nr)

\* C5: with every index inside the grid, the grid handed to the inverse
\* transform is zero at every cell no index names, and at a named cell holds
\* the coefficient of the last pair with that index.
C5_ScatterLastWins ==
    ScatterCase =>
        /\ rho_temp.set
        /\ rho_temp.shape = arg.nr
        /\ \A c \in Cells(arg.nr) :
              LET named == {k \in 1..NPairs(arg.h5) : PairIndex(arg.h5, k) = c}
              IN rho_temp.v[c] = IF named = {} THEN <<0, 0>>
                                 ELSE PairCoef(arg.h5, MaxOf(named))

\* two pairs with the same index were scattered into a grid with cells
\* that no index names
C5_Witness ==
    /\ ScatterCase
    /\ NPairs(arg.h5) >= 2
    /\ PairIndex(arg.h5, 1) = PairIndex(arg.h5, 2)
    /\ PairCoef(arg.h5, 1) # PairCoef(arg.h5, 2)
    /\ rho_temp.set
    /\ rho_temp.v[PairIndex(arg.h5, 1)] = PairCoef(arg.h5, 2)
    /\ \E c \in Cells(arg.nr) : c # PairIndex(arg.h5, 1)

NoDiffCase ==
    /\ ReadChargeDone
    /\ "rhodiff_g" \notin DOMAIN arg.h5.ds
    /\ HasTotal(arg.h5)
    /\ \A k \in 1..NPairs(arg.h5) : Indexable(PairIndex(arg.h5, k), arg.nr)

\* C6: without the dataset rhodiff_g, and with a total charge that decodes,
\* the call returns the total field and a difference field of the same
\* dimensions that is zero at every cell.
C6_MissingDiffIsZero ==
    NoDiffCase =>
        /\ ret.kind = "return"
        /\ ret.value.tot.shape = arg.nr
        /\ ret.value.diff.shape = arg.nr
        /\ DOMAIN ret.value.diff.v = Cells(arg.nr)
        /\ \A c \in Cells(arg.nr) : ret.value.diff.v[c] = 0

\* a file without rhodiff_g and with a non-zero total charge on a 4x2x1
\* grid was read
C6_Witness ==
    /\ NoDiffCase
    /\ arg.nr = <<4, 2, 1>>
    /\ NPairs(arg.h5) >= 1
    /\ ret.kind = "return"
    /\ \E c \in Cells(arg.nr) : ret.value.tot.v[c] # 0


(***************************************************************************)
(* read_pseudo_file.                                                       *)
(*                                                                         *)
(* The text of a UPF file is a sequence of markup tokens: open tags with   *)
(* their attributes, close tags, and text.  ElementTree builds from them   *)
(* the list of the elements in document order, each with its parent (0     *)
(* for the root) and the text before its first child.  A text is the       *)
(* sequence of its words.                                                  *)
(***************************************************************************)
MaxRep == 1        \* repeated nodes (PP_BETA.n, PP_QIJL.n, PP_QIJ.n): 0..MaxRep of each

Tag(base, n)      == [base |-> base, n |-> n]
Open(tag, attrs)  == [k |-> "open", tag |-> tag, attrs |-> attrs]
Close(tag)        == [k |-> "close", tag |-> tag]
Text(v)           == [k |-> "text", v |-> v]

\* line 111: line.replace('&input','&amp;input')
ReplaceAmpInput(toks) ==
    [i \in 1..Len(toks) |->
        IF toks[i].k = "text"
        THEN Text([w \in 1..Len(toks[i].v) |->
                     IF toks[i].v[w] = Word("&input") THEN Word("&amp;input")
                     ELSE toks[i].v[w]])
        ELSE toks[i]]

\* character data as the parser hands it on: the entity &amp; is &
Unescape(words) ==
    [w \in 1..Len(words) |->
        IF words[w] = Word("&amp;input") THEN Word("&input") ELSE words[w]]

\* a bare & in character data is not well-formed
BareAmpersand(words) == \E w \in 1..Len(words) : words[w] = Word("&input")

HasChild(nodes, p) == \E j \in 1..Len(nodes) : nodes[j].parent = p

\* the parser on one token: st is the elements built so far, the stack of
\* the open elements and whether the text was found not well-formed
ParseStep(st, tok) ==
    LET top == IF st.stack = <<>> THEN 0 ELSE st.stack[Len(st.stack)]
    IN IF st.error THEN st
       ELSE IF tok.k = "open"
       THEN IF st.stack = <<>> /\ st.nodes # <<>> THEN [st EXCEPT !.error = TRUE]
            ELSE [st EXCEPT !.nodes = Append(@, [tag |-> tok.tag, attrs |-> tok.attrs,
                                                 parent |-> top, text |-> <<>>]),
                            !.stack = Append(@, Len(st.nodes) + 1)]
       ELSE IF tok.k = "close"
       THEN IF st.stack = <<>> \/ st.nodes[top].tag # tok.tag
            THEN [st EXCEPT !.error = TRUE]
            ELSE [st EXCEPT !.stack = SubSeq(@, 1, Len(@) - 1)]
       ELSE IF st.stack = <<>> \/ BareAmpersand(tok.v) THEN [st EXCEPT !.error = TRUE]
       ELSE IF HasChild(st.nodes, top) THEN st
       ELSE [st EXCEPT !.nodes[top].text = @ \o Unescape(tok.v)]

RECURSIVE ParseTokens(_, _, _)
ParseTokens(toks, i, st) ==
    IF i > Len(toks) THEN st
    ELSE ParseTokens(toks, i + 1, CHOOSE n \in {ParseStep(s, toks[i]) : s \in {st}} : TRUE)

\* line 113: ET.fromstringlist(pslines)
fromstringlist(pslines) ==
    LET end == ParseTokens(pslines, 1, [nodes |-> <<>>, stack |-> <<>>, error |-> FALSE])
    IN IF end.error \/ end.stack # <<>> \/ end.nodes = <<>> THEN Raised("ParseError")
       ELSE Returned(end.nodes)

\* element.find('./name') below the element p: the first child of that tag, or 0
Find(nodes, p, name) ==
    LET hits == {j \in 1..Len(nodes) : nodes[j].parent = p /\ nodes[j].tag = Tag(name, 0)}
    IN IF hits = {} THEN 0 ELSE CHOOSE j \in hits : \A h \in hits : j <= h

\* for el in node: the children in document order
RECURSIVE ChildrenFrom(_, _, _)
ChildrenFrom(nodes, p, j) ==
    IF j > Len(nodes) THEN <<>>
    ELSE (IF nodes[j].parent = p THEN <<j>> ELSE <<>>) \o ChildrenFrom(nodes, p, j + 1)

Children(nodes, p) == ChildrenFrom(nodes, p, 1)

\* 'pat' in el.tag
InTag(pat, tag) == pat = tag.base \/ (pat = "PP_QIJ" /\ tag.base = "PP_QIJL")

None      == [t |-> "None"]
Str(x)    == [t |-> "str", v |-> x]
Array(x)  == [t |-> "array", v |-> x]
List(x)   == [t |-> "list", v |-> x]
Dict(x)   == [t |-> "dict", v |-> x]

\* np.array([float(x) for x in node.text.split()]) of the element j
Floats(nodes, j) ==
    IF j = 0 \/ nodes[j].text = <<>> THEN Raised("AttributeError")
    ELSE LET x == ReadTokens(nodes[j].text, 1, <<>>)
         IN IF x.kind = "raise" THEN x ELSE Returned(Array(x.value))

\* element.text
TextOf(nodes, j) == IF nodes[j].text = <<>> THEN None ELSE Str(nodes[j].text)

\* the first outcome that is an exception, if any
FirstRaised(outs) ==
    LET bad == {i \in 1..Len(outs) : outs[i].kind = "raise"}
    IN IF bad = {} THEN Returned(<<>>) ELSE outs[CHOOSE i \in bad : \A b \in bad : i <= b]

\* the value of an expression that is evaluated once: the element of {e}
Once(S) == CHOOSE r \in S : TRUE

\* lines 168-180: the children q[k..] of PP_AUGMENTATION
RECURSIVE ReadAugmentation(_, _, _, _)
ReadAugmentation(nodes, q, k, acc) ==
    IF k > Len(q) THEN Returned(acc)
    ELSE LET tag == nodes[q[k]].tag
             val == Floats(nodes, q[k])
         IN IF InTag("PP_QIJL", tag)
            THEN IF val.kind = "raise" THEN val
                 ELSE ReadAugmentation(nodes, q, k + 1,
                          [acc EXCEPT !.PP_QIJL = Append(@,
                              Dict([attrs |-> nodes[q[k]].attrs, qijl |-> val.value]))])
            ELSE IF InTag("PP_QIJ", tag)
            THEN IF val.kind = "raise" THEN val
                 ELSE ReadAugmentation(nodes, q, k + 1,
                          [acc EXCEPT !.PP_QIJ = Append(@,
                              Dict([attrs |-> nodes[q[k]].attrs, qij |-> val.value]))])
            ELSE IF tag = Tag("PP_Q", 0)
            THEN IF val.kind = "raise" THEN val
                 ELSE ReadAugmentation(nodes, q, k + 1, [acc EXCEPT !.PP_Q = val.value])
            ELSE ReadAugmentation(nodes, q, k + 1, acc)

\* line 181: pp_aug.update(dict(PP_QIJL=pp_qijl, PP_QIJ = pp_qij, PP_Q = pp_q))
Augmentation(attrs, a) ==
    Dict([attrs |-> attrs, PP_QIJL |-> List(a.PP_QIJL), PP_QIJ |-> List(a.PP_QIJ),
          PP_Q |-> a.PP_Q])

\* lines 156-181: the children el[k..] of PP_NONLOCAL
RECURSIVE ReadNonlocal(_, _, _, _)
ReadNonlocal(nodes, el, k, acc) ==
    IF k > Len(el) THEN Returned(acc)
    ELSE LET tag == nodes[el[k]].tag
             val == Floats(nodes, el[k])
             Aug(a) == IF a.kind = "raise" THEN a
                       ELSE ReadNonlocal(nodes, el, k + 1,
                                [acc EXCEPT !.pp_q = a.value.PP_Q,
                                            !.pp_aug = Augmentation(nodes[el[k]].attrs,
                                                                    a.value)])
         IN IF InTag("PP_BETA", tag)
            THEN IF val.kind = "raise" THEN val
                 ELSE ReadNonlocal(nodes, el, k + 1,
                          [acc EXCEPT !.betas = Append(@,
                              Dict([attrs |-> nodes[el[k]].attrs, beta |-> val.value]))])
            ELSE IF InTag("PP_DIJ", tag)
            THEN IF val.kind = "raise" THEN val
                 ELSE ReadNonlocal(nodes, el, k + 1, [acc EXCEPT !.dij = val.value])
            ELSE IF InTag("PP_AUGMENTATION", tag)
            THEN Once({Aug(a) : a \in {ReadAugmentation(nodes, Children(nodes, el[k]), 1,
                              [PP_QIJL |-> <<>>, PP_QIJ |-> <<>>, PP_Q |-> acc.pp_q])}})
            ELSE ReadNonlocal(nodes, el, k + 1, acc)

NonlocalDict_AbsentKeys(r) ==
    IF r.kind = "raise" THEN r
    ELSE IF r.value.pp_aug = None
         THEN Returned(Dict([PP_BETA |-> List(r.value.betas), PP_DIJ |-> r.value.dij]))
         ELSE Returned(Dict([PP_BETA |-> List(r.value.betas), PP_DIJ |-> r.value.dij,
                             PP_AUGMENTATION |-> r.value.pp_aug]))

\* line 182: dict(PP_BETA = betas, PP_DIJ = dij, PP_AUGMENTATION = pp_aug)
NonlocalDict(r) ==
    IF r.kind = "raise" THEN r
    ELSE Returned(Dict([PP_BETA |-> List(r.value.betas), PP_DIJ |-> r.value.dij,
                        PP_AUGMENTATION |-> r.value.pp_aug]))

\* lines 150-184
PPNonlocal(nodes) ==
    LET node == Find(nodes, 1, "PP_NONLOCAL")
    IN IF node = 0 THEN Returned(None)
       ELSE Once({NonlocalDict(r) :
                    r \in {ReadNonlocal(nodes, Children(nodes, node), 1,
                             [betas |-> <<>>, dij |-> None, pp_aug |-> None,
                              pp_q |-> None])}})

\* lines 135-148: an optional array directly below the root
OptionalArray(nodes, name) ==
    LET node == Find(nodes, 1, name)
    IN IF node = 0 THEN Returned(None) ELSE Floats(nodes, node)

\* lines 119-122: whatever is raised in the try block gives ""
PPInput(nodes) ==
    LET info == Find(nodes, 1, "PP_INFO")
        node == IF info = 0 THEN 0 ELSE Find(nodes, info, "PP_INPUTFILE")
    IN IF node = 0 THEN Str(<<>>) ELSE TextOf(nodes, node)

\* lines 123-187: the dictionary, or the first exception raised on the way
Assemble(nodes, info, header, mesh, pp_r, pp_rab, local, rhoatom, nonlocal) ==
    LET raised == FirstRaised(<<pp_r, pp_rab, local, rhoatom, nonlocal>>)
    IN IF raised.kind = "raise" THEN raised
       ELSE Returned(
              [PP_INFO |-> Dict([INFO |-> TextOf(nodes, info), PP_INPUT |-> PPInput(nodes)]),
               PP_HEADER |-> Dict(nodes[header].attrs),
               PP_MESH |-> Dict([attrs |-> nodes[mesh].attrs,
                                 PP_R |-> pp_r.value, PP_RAB |-> pp_rab.value]),
               PP_LOCAL |-> local.value,
               PP_RHOATOM |-> rhoatom.value,
               PP_NONLOCAL |-> nonlocal.value])

\* lines 117-187 on the parsed tree, given the three required nodes
ExtractFrom(nodes, info, header, mesh) ==
    IF info = 0 \/ header = 0 \/ mesh = 0 THEN Raised("AttributeError")
    ELSE Once({Assemble(nodes, info, header, mesh, pp_r, pp_rab, local, rhoatom, nonlocal) :
                 pp_r \in {Floats(nodes, Find(nodes, mesh, "PP_R"))},
                 pp_rab \in {Floats(nodes, Find(nodes, mesh, "PP_RAB"))},
                 local \in {OptionalArray(nodes, "PP_LOCAL")},
                 rhoatom \in {OptionalArray(nodes, "PP_RHOATOM")},
                 nonlocal \in {PPNonlocal(nodes)}})

\* lines 117-187 on the parsed tree
Extract(nodes) ==
    Once({ExtractFrom(nodes, info, header, mesh) :
            info \in {Find(nodes, 1, "PP_INFO")},
            header \in {Find(nodes, 1, "PP_HEADER")},
            mesh \in {Find(nodes, 1, "PP_MESH")}})

\* lines 112-115, 187: a ParseError gives the empty dictionary
ParsedOrEmpty(psroot) ==
    IF psroot.kind = "raise" THEN Returned(<<>>) ELSE Extract(psroot.value)

\* lines 108-187 on the text of the file
ReadPseudo(text) ==
    Once({Once({ParsedOrEmpty(psroot) : psroot \in {fromstringlist(pslines)}}) :
            pslines \in {ReplaceAmpInput(text)}})

\* read_pseudo_file(filename): the with statement of line 110 closes the
\* file before the text is parsed
read_pseudo_file ==
    /\ "upf" \in DOMAIN arg
    /\ ret' = ReadPseudo(arg.upf)
    /\ nopen' = nopen + 1 - 1
    /\ op' = "read_pseudo_file"
    /\ UNCHANGED <<arg, file, rho_temp>>


(***************************************************************************)
(* Inputs of read_pseudo_file: UPF files described by the nodes they hold. *)
(***************************************************************************)
Element(tag, attrs, content) == <<Open(tag, attrs)>> \o content \o <<Close(tag)>>

\* the text of an array node: two numbers, or nothing in a file whose
\* arrays are empty
Numbers(doc, k) ==
    IF doc.variant = "empty_arrays" THEN <<>> ELSE <<Text(<<FormatD(k), FormatD(k + 1)>>)>>

RECURSIVE Repeated(_, _, _, _)
Repeated(doc, base, n, k) ==
    IF n = 0 THEN <<>>
    ELSE Repeated(doc, base, n - 1, k)
         \o Element(Tag(base, n), [index |-> n], Numbers(doc, k + 10 * n))

Optional(present, toks) == IF present THEN toks ELSE <<>>

RootTag == Tag("UPF", 0)

Body(doc) ==
    Optional(doc.missing # "PP_INFO",
        Element(Tag("PP_INFO", 0), <<>>,
            <<Text(<<Word("Generated"), Word("by"), Word("ld1.x")>>)>>
            \o Optional(doc.inputfile,
                   Element(Tag("PP_INPUTFILE", 0), <<>>,
                       <<Text(<<Word("&input"), Word("zed=14"), Word("/")>>)>>))))
    \o Optional(doc.missing # "PP_HEADER",
           Element(Tag("PP_HEADER", 0), [element |-> "Si", mesh_size |-> "2"], <<>>))
    \o Optional(doc.missing # "PP_MESH",
           Element(Tag("PP_MESH", 0), [mesh |-> "2"],
               Optional(doc.missing # "PP_R",
                   Element(Tag("PP_R", 0), <<>>, Numbers(doc, 1)))
               \o Optional(doc.missing # "PP_RAB",
                      Element(Tag("PP_RAB", 0), <<>>, Numbers(doc, 2)))))
    \o Optional(doc.local, Element(Tag("PP_LOCAL", 0), <<>>, Numbers(doc, 3)))
    \o Optional(doc.nonlocal.present,
           Element(Tag("PP_NONLOCAL", 0), <<>>,
               Repeated(doc, "PP_BETA", doc.nonlocal.nbeta, 4)
               \o Optional(doc.nonlocal.dij,
                      Element(Tag("PP_DIJ", 0), <<>>, Numbers(doc, 5)))
               \o Optional(doc.nonlocal.aug,
                      Element(Tag("PP_AUGMENTATION", 0), [q_with_l |-> "T"],
                          Optional(doc.nonlocal.q,
                              Element(Tag("PP_Q", 0), <<>>, Numbers(doc, 6)))
                          \o Repeated(doc, "PP_QIJ", doc.nonlocal.nqij, 7)
                          \o Repeated(doc, "PP_QIJL", doc.nonlocal.nqijl, 8)))))
    \o Optional(doc.rhoatom, Element(Tag("PP_RHOATOM", 0), <<>>, Numbers(doc, 9)))

\* the text of the file: well formed, with a close tag that matches no open
\* tag, or ending before the root is closed
DocTokens(doc) ==
    <<Open(RootTag, [version |-> "2.0.1"])>>
    \o Body(doc)
    \o (IF doc.variant = "unmatched_close" THEN <<Close(Tag("PP_LOCAL", 0))>> ELSE <<>>)
    \o (IF doc.variant = "unterminated" THEN <<>> ELSE <<Close(RootTag)>>)

NonlocalShapes ==
    {[present |-> FALSE, nbeta |-> 0, dij |-> FALSE, aug |-> FALSE,
      nqijl |-> 0, nqij |-> 0, q |-> FALSE]}
    \cup {[present |-> TRUE, nbeta |-> b, dij |-> d, aug |-> FALSE,
           nqijl |-> 0, nqij |-> 0, q |-> FALSE] : b \in 0..MaxRep, d \in BOOLEAN}
    \cup {[present |-> TRUE, nbeta |-> b, dij |-> d, aug |-> TRUE,
           nqijl |-> l, nqij |-> j, q |-> q] :
             b \in 0..MaxRep, d \in BOOLEAN, l \in 0..MaxRep, j \in 0..MaxRep, q \in BOOLEAN}

Docs ==
    [missing : {"none", "PP_INFO", "PP_HEADER", "PP_MESH", "PP_R", "PP_RAB"},
     inputfile : BOOLEAN, local : BOOLEAN, rhoatom : BOOLEAN,
     nonlocal : NonlocalShapes,
     variant : {"ok", "unmatched_close", "unterminated", "empty_arrays"}]

PseudoInputs == {[upf |-> DocTokens(doc), doc |-> doc] : doc \in Docs}

InitPseudo ==
    /\ arg \in PseudoInputs
    /\ file = NoFile
    /\ op = "none"
    /\ ret = NoRet
    /\ rho_temp = NoGrid
    /\ nopen = 0

NextPseudo == read_pseudo_file

SpecPseudo == InitPseudo /\ [][NextPseudo]_vars

(***************************************************************************)
(* Properties of read_pseudo_file.                                         *)
(***************************************************************************)
ReadPseudoDone == op = "read_pseudo_file"

\* C7: on markup with an unmatched close tag, or left unterminated, the
\* call fails with FormatError and returns nothing.
C7_InvalidMarkupFormatError ==
    (ReadPseudoDone /\ arg.doc.variant \in {"unmatched_close", "unterminated"})
        => ret = Raised("FormatError")

\* C8: on a well-formed file without the node PP_HEADER the call fails with
\* FormatError.
C8_MissingHeaderFormatError ==
    (ReadPseudoDone /\ arg.doc.variant = "ok" /\ arg.doc.missing = "PP_HEADER")
        => ret = Raised("FormatError")

\* a well-formed file with the required nodes, whose array nodes hold numbers
CompleteFile ==
    /\ ReadPseudoDone
    /\ arg.doc.variant = "ok"
    /\ arg.doc.missing = "none"

HasKey(d, key) == d.t = "dict" /\ key \in DOMAIN d.v

\* C9: on a well-formed file with the required nodes the call returns, for
\* every combination of optional nodes, and every absent optional node has
\* its absent marker under its own key: None, the empty list for the
\* repeated nodes, the empty string for PP_INPUTFILE.
C9_AbsentOptionalNodes ==
    CompleteFile =>
        /\ ret.kind = "return"
        /\ {"PP_INFO", "PP_LOCAL", "PP_RHOATOM", "PP_NONLOCAL"} \subseteq DOMAIN ret.value
        /\ HasKey(ret.value.PP_INFO, "PP_INPUT")
        /\ ~arg.doc.inputfile => ret.value.PP_INFO.v.PP_INPUT = Str(<<>>)
        /\ ~arg.doc.local => ret.value.PP_LOCAL = None
        /\ ~arg.doc.rhoatom => ret.value.PP_RHOATOM = None
        /\ ~arg.doc.nonlocal.present => ret.value.PP_NONLOCAL = None
        /\ arg.doc.nonlocal.present =>
              LET nl == ret.value.PP_NONLOCAL
              IN /\ HasKey(nl, "PP_BETA") /\ HasKey(nl, "PP_DIJ")
                 /\ HasKey(nl, "PP_AUGMENTATION")
                 /\ arg.doc.nonlocal.nbeta = 0 => nl.v.PP_BETA = List(<<>>)
                 /\ ~arg.doc.nonlocal.dij => nl.v.PP_DIJ = None
                 /\ ~arg.doc.nonlocal.aug => nl.v.PP_AUGMENTATION = None
                 /\ arg.doc.nonlocal.aug =>
                       LET aug == nl.v.PP_AUGMENTATION
                       IN /\ HasKey(aug, "PP_QIJL") /\ HasKey(aug, "PP_QIJ")
                          /\ HasKey(aug, "PP_Q")
                          /\ arg.doc.nonlocal.nqijl = 0 => aug.v.PP_QIJL = List(<<>>)
                          /\ arg.doc.nonlocal.nqij = 0 => aug.v.PP_QIJ = List(<<>>)
                          /\ ~arg.doc.nonlocal.q => aug.v.PP_Q = None

\* a file with PP_NONLOCAL and PP_AUGMENTATION, but with none of the
\* optional nodes inside them and no PP_LOCAL, was read
C9_Witness ==
    /\ CompleteFile
    /\ ~arg.doc.inputfile /\ ~arg.doc.local /\ arg.doc.rhoatom
    /\ arg.doc.nonlocal.present /\ arg.doc.nonlocal.aug
    /\ arg.doc.nonlocal.nbeta = 0 /\ ~arg.doc.nonlocal.dij
    /\ arg.doc.nonlocal.nqijl = 0 /\ arg.doc.nonlocal.nqij = 0 /\ ~arg.doc.nonlocal.q
    /\ ret.kind = "return"
    /\ ret.value.PP_NONLOCAL.v.PP_AUGMENTATION.v.PP_Q = None
    /\ ret.value.PP_RHOATOM # None

(***************************************************************************)
(* read_EtotV: the two-column file of volumes and energies.                *)
(***************************************************************************)
MaxLines == 3

\* lines 292-297 for the lines[i..]
RECURSIVE ReadColumns(_, _, _, _)
ReadColumns(lines, i, Vx, Ex) ==
    IF i > Len(lines) THEN Returned([Vx |-> Array(Vx), Ex |-> Array(Ex)])
    ELSE IF Len(lines[i]) < 1 THEN Raised("IndexError")
    ELSE IF ParseFloat(lines[i][1]).kind = "raise" THEN Raised("ValueError")
    ELSE IF Len(lines[i]) < 2 THEN Raised("IndexError")
    ELSE IF ParseFloat(lines[i][2]).kind = "raise" THEN Raised("ValueError")
    ELSE ReadColumns(lines, i + 1, Append(Vx, ParseFloat(lines[i][1]).value),
                     Append(Ex, ParseFloat(lines[i][2]).value))

\* lines 288-299 on the text of the file
ReadEtotV(content) == Once({ReadColumns(lines, 1, <<>>, <<>>) : lines \in {Lines(content)}})

\* read_EtotV(fname): the with statement of line 291 closes the file
\* however the block is left
read_EtotV ==
    /\ "series" \in DOMAIN arg
    /\ ret' = ReadEtotV(arg.series)
    /\ nopen' = nopen + 1 - 1
    /\ op' = "read_EtotV"
    /\ UNCHANGED <<arg, file, rho_temp>>

\* a number as it is written in the file, e.g. -1.05E+01
Sci(neg, digs, exp) == [t |-> "sci", neg |-> neg, exp |-> exp, digs |-> digs]

\* lines of the file: pairs of numbers, an empty line, a line with one
\* number, with three, and lines with a word in the first or second column
SeriesLines ==
    {<<Sci(FALSE, <<1, 0>>, 0), Sci(TRUE, <<1, 0, 5>>, 1)>>,
     <<Sci(FALSE, <<2, 0>>, 0), Sci(TRUE, <<9, 8>>, 0)>>,
     <<FormatD(3), FormatD(-9)>>,
     <<>>,
     <<Sci(FALSE, <<4, 0>>, 0)>>,
     <<FormatD(5), FormatD(-8), FormatD(0)>>,
     <<Word("V"), FormatD(-7)>>,
     <<FormatD(6), Word("E")>>}

RECURSIVE SeriesOfLength(_)
SeriesOfLength(n) ==
    IF n = 0 THEN {<<>>}
    ELSE {Append(f, l) : f \in SeriesOfLength(n - 1), l \in SeriesLines}

\* the text of the lines, the last one with or without its line break
RECURSIVE SeriesText(_, _, _)
SeriesText(lines, i, closed) ==
    IF i > Len(lines) THEN <<>>
    ELSE lines[i] \o (IF i < Len(lines) \/ closed THEN <<NL>> ELSE <<>>)
         \o SeriesText(lines, i + 1, closed)

SeriesInputs ==
    UNION {{[series |-> SeriesText(f, 1, closed)] :
              f \in SeriesOfLength(n), closed \in BOOLEAN} : n \in 0..MaxLines}

InitSeries ==
    /\ arg \in SeriesInputs
    /\ file = NoFile
    /\ op = "none"
    /\ ret = NoRet
    /\ rho_temp = NoGrid
    /\ nopen = 0

NextSeries == read_EtotV

SpecSeries == InitSeries /\ [][NextSeries]_vars

(***************************************************************************)
(* Properties of read_EtotV.                                               *)
(***************************************************************************)
ReadEtotVDone == op = "read_EtotV"

\* the indices of the non-empty lines of the file, in file order
RECURSIVE NonEmptyLines(_, _)
NonEmptyLines(lines, i) ==
    IF i > Len(lines) THEN <<>>
    ELSE (IF lines[i] = <<>> THEN <<>> ELSE <<i>>) \o NonEmptyLines(lines, i + 1)

\* every non-empty line holds exactly two numeric tokens
TwoNumbersPerLine ==
    \A l \in {Lines(arg.series)} :
        \A i \in 1..Len(l) :
            l[i] # <<>> =>
                /\ Len(l[i]) = 2
                /\ \A j \in 1..2 : ParseFloat(l[i][j]).kind = "return"

\* the columns of the non-empty lines, in file order
ColumnOf(l, ne, j) == Array([i \in 1..Len(ne) |-> ParseFloat(l[ne[i]][j]).value])

Column(j) ==
    Once({Once({ColumnOf(l, ne, j) : ne \in {NonEmptyLines(l, 1)}}) :
            l \in {Lines(arg.series)}})

\* C11: for a file whose non-empty lines each hold exactly two numeric
\* tokens, read_EtotV returns two arrays of equal length with one entry per
\* non-empty line, the i-th entries being the first and the second token of
\* the i-th non-empty line; empty lines do not make the read fail.
C11_PairsInFileOrder ==
    (ReadEtotVDone /\ TwoNumbersPerLine)
        => ret = Returned([Vx |-> Column(1), Ex |-> Column(2)])

(***************************************************************************)
(* get_tag: a line is a sequence of characters.                            *)
(***************************************************************************)
MaxLineLen == 5

\* str.strip(chars): leading and trailing characters of chars removed
Strip(line, chars) ==
    LET keep == {i \in 1..Len(line) : line[i] \notin chars}
    IN IF keep = {} THEN <<>>
       ELSE SubSeq(line, CHOOSE i \in keep : \A k \in keep : i <= k, MaxOf(keep))

\* the characters of the lines: a word character stands for the class \w
\* and a star for the characters the pattern does not allow
Chars == {"<", ">", "/", "a", " ", "*"}

\* [\w\ =\+\-\.\"]
InClass(c) == c \in {"a", " ", "=", "+", "-", ".", "\""}

\* \/? at position i: the position after it
SkipSlash(line, i) == IF i <= Len(line) /\ line[i] = "/" THEN i + 1 ELSE i

\* [...]+ from position i: the position after the run
RECURSIVE RunEnd(_, _)
RunEnd(line, i) ==
    IF i <= Len(line) /\ InClass(line[i]) THEN RunEnd(line, i + 1) ELSE i

\* the match, given where the class starts (j), where its run ends (e)
\* and where the closing > has to be (k)
MatchAt(line, j, e, k) == e > j /\ k <= Len(line) /\ line[k] = ">"

\* pat.match(line): the pattern matches a prefix of line
Match(line) ==
    /\ Len(line) >= 1
    /\ line[1] = "<"
    /\ \E j \in {SkipSlash(line, 2)} :
         \E e \in {RunEnd(line, j)} :
           \E k \in {SkipSlash(line, e)} : MatchAt(line, j, e, k)

\* lines 92-95 on the stripped line
TagOf(line) == IF Match(line) THEN Str(Strip(line, {" ", "<", ">"})) ELSE None

\* lines 92-95
GetTag(line) == Once({TagOf(l) : l \in {Strip(line, {" ", "\n", "\t"})}})

get_tag ==
    /\ "line" \in DOMAIN arg
    /\ ret' = Returned(GetTag(arg.line))
    /\ op' = "get_tag"
    /\ UNCHANGED <<arg, file, rho_temp, nopen>>

RECURSIVE LinesOfLength(_)
LinesOfLength(n) ==
    IF n = 0 THEN {<<>>}
    ELSE {Append(l, c) : l \in LinesOfLength(n - 1), c \in Chars}

TagInputs == UNION {{[line |-> l] : l \in LinesOfLength(n)} : n \in 0..MaxLineLen}

InitTag ==
    /\ arg \in TagInputs
    /\ file = NoFile
    /\ op = "none"
    /\ ret = NoRet
    /\ rho_temp = NoGrid
    /\ nopen = 0

NextTag == get_tag

SpecTag == InitTag /\ [][NextTag]_vars

(***************************************************************************)
(* Properties of get_tag.                                                  *)
(***************************************************************************)
GetTagDone == op = "get_tag"

\* the line without its surrounding spaces, tabs and newlines
Trimmed == Strip(arg.line, {" ", "\t", "\n"})

\* the text between the first and the last character of l
Between(l) == SubSeq(l, 2, Len(l) - 1)

\* the text t without an optional leading and an optional trailing /
WithoutSlashes(t) ==
    SubSeq(t, IF t # <<>> /\ t[1] = "/" THEN 2 ELSE 1,
              IF Len(t) > 1 /\ t[Len(t)] = "/" THEN Len(t) - 1 ELSE Len(t))

\* the whole line l starts with <, ends with > and has between them
\* allowed characters only, with an optional leading or trailing /
IsTagLine(l) ==
    /\ Len(l) >= 3
    /\ l[1] = "<"
    /\ l[Len(l)] = ">"
    /\ \E t \in {WithoutSlashes(Between(l))} :
         t # <<>> /\ \A i \in 1..Len(t) : InClass(t[i])

\* C12: get_tag returns the text between < and > exactly when the trimmed
\* line as a whole is a tag (starts with <, ends with >, allowed characters
\* only between them, with an optional leading or trailing /), and None for
\* every other line, a tag followed by trailing text included.
C12_TagLineClassification ==
    GetTagDone =>
        ret = Returned(IF IsTagLine(Trimmed) THEN Str(Between(Trimmed)) ELSE None)

(***************************************************************************)
(* File handles.                                                           *)
(***************************************************************************)
\* C10: every handle an operation opens is released when the operation
\* ends, on normal return and on failure: no operation ends with a handle
\* still open.
C10_HandlesReleased == op # "none" => nopen = 0

====
